---- MODULE Spec2Model ----
(***************************************************************************)
(* A model of the jewellery-video pipeline of app/services/orchestrator.py *)
(* (VideoOrchestrator.process_request), of the structured agent call it    *)
(* is built on (app/agents/base_agent.py, BaseAgent.execute) and of the    *)
(* video generation client (app/agents/generation_agent.py).               *)
(*                                                                         *)
(* One request is followed from the endpoint that receives it              *)
(* (app/api/v1/endpoints/generation.py) to its response or its error.      *)
(* Every await of the coroutine is one action: the action makes the call,  *)
(* draws the answer of the external service with \E and runs the code up   *)
(* to the next await.  A second request in flight is a second coroutine    *)
(* on the same event loop, suspended while the first one runs.             *)
(*                                                                         *)
(* Conventions.  Python strings are TLA+ strings and an f-string is a      *)
(* concatenation (\o); Python's None in a place that holds a string is     *)
(* the value None below, and Fmt is what an f-string makes of it.  A       *)
(* float score is held in tenths (9.0 is 90, 9.5 is 95).  A JSON object    *)
(* is a function from its keys, read with Get as dict.get reads it.        *)
(***************************************************************************)
EXTENDS Integers, Sequences, FiniteSets, TLC

VARIABLES
    request,                \* the GenerationRequest being served
    pc,                     \* the await the coroutine is suspended at / its outcome
    error,                  \* the exception that left process_request, or NoError
    visual_context,         \* image_analysis.visual_context_summary
    concept,                \* ConceptOutput
    visual_plan,            \* VisualDirectorOutput
    i,                      \* the loop variable of `for i in range(max_iterations)`
    iterations,
    feedback,
    final_prompt_output,
    qa_score,
    last_qa_output,
    last_continuity_output,
    poll_i,                 \* the loop variable of _poll_generation while it runs
    generation_id,          \* the id the submit response carried
    poll_url,               \* the url _poll_generation polls
    generation_result,      \* GenerationOutput
    saved,                  \* what _save_assets left on disk: <<directory, file>> pairs
    response,               \* the GenerationResponse returned, or NoResponse
    \* history (not program state): what the request has done so far
    calls,                  \* how many times each external call was made
    sent,                   \* the latest external call: its arguments, whether it raised
    final_poll,             \* the poll answer that ended the polling, if one has
    qa_iter,                \* the iteration whose prompt last_qa_output judged
    continuity_iter,        \* the iteration whose prompt last_continuity_output judged
    approved_exit,          \* the loop was left by the break on line 111
    submitted,              \* the payload of the latest submit POST
    save_outcome,           \* how _save_assets ended
    warned,                 \* the warning of line 115 has been logged
    inferences,             \* how many requests went to the language-model service
    progress,               \* the latest poll attempt due a progress entry, and its entry
    \* one call of BaseAgent.execute taken by itself
    self_model,             \* the model the agent was constructed with
    execute_image,          \* the image_url argument of execute
    current_model,          \* the model of the request execute sends
    \* a second request in flight on the same event loop
    active,                 \* which of the two coroutines is running: 1 or 2
    other                   \* the locals of the suspended one, or NoOutput if there is none

vars == <<request, pc, error, visual_context, concept, visual_plan, i, iterations, feedback,
          final_prompt_output, qa_score, last_qa_output, last_continuity_output,
          poll_i, generation_id, poll_url, generation_result, saved, response,
          calls, sent, final_poll, qa_iter, continuity_iter, approved_exit,
          submitted, save_outcome, warned, inferences, progress,
          self_model, execute_image, current_model, active, other>>

flowVars == <<active, other>>
selectionVars == <<self_model, execute_image, current_model>>

---------------------------------------------------------------------------
(* Values *)

None == "<None>"                    \* Python's None where a string may stand
NoOutput == [is_none |-> TRUE]      \* Python's None where a record may stand
NoError == [raised |-> FALSE]
NoResponse == [returned |-> FALSE]

\* str(v) inside an f-string
Fmt(v) == IF v = None THEN "None" ELSE v

\* dict.get(key, default)
Get(obj, key, default) == IF key \in DOMAIN obj THEN obj[key] ELSE default

\* Python truthiness of an Optional[str]
Truthy(s) == s # None /\ s # ""

\* `a or b` of two of them
StrOr(a, b) == IF Truthy(a) THEN a ELSE b

\* `sub in s`
Contains(s, sub) ==
    \E k \in 1..(Len(s) - Len(sub) + 1) : SubSeq(s, k, k + Len(sub) - 1) = sub

\* str.lower(), for the letters of the names used here
LowerChar(c) ==
    CASE c = "A" -> "a" [] c = "C" -> "c" [] c = "D" -> "d" [] c = "E" -> "e"
      [] c = "G" -> "g" [] c = "I" -> "i" [] c = "L" -> "l" [] c = "M" -> "m"
      [] c = "N" -> "n" [] c = "O" -> "o" [] c = "P" -> "p" [] c = "R" -> "r"
      [] c = "S" -> "s" [] c = "T" -> "t" [] c = "U" -> "u" [] c = "V" -> "v"
      [] OTHER -> c
RECURSIVE LowerCase(_)
LowerCase(s) ==
    IF s = "" THEN "" ELSE LowerChar(SubSeq(s, 1, 1)) \o LowerCase(SubSeq(s, 2, Len(s)))

---------------------------------------------------------------------------
(* The request (app/schemas/generation.py) *)

Request(description, reference) ==
    [product_description |-> description, jewellery_type |-> "ring",
     gender |-> "female", video_type |-> "ecommerce", duration |-> 8,
     base64_image |-> "img", is_music |-> TRUE, is_model |-> FALSE,
     model_consistency |-> TRUE, reference_video_path |-> reference]

\* A request with neither optional field, and one with both
Requests == {Request(None, None), Request("a solitaire ring", "videos/ref.mp4")}

---------------------------------------------------------------------------
(* The structured agent call (app/agents/base_agent.py, BaseAgent.execute) *)

Raise(type, msg) == [raised |-> TRUE, type |-> type, msg |-> msg]
Return(value) == [raised |-> FALSE, value |-> value]

\* What the language-model service may answer: the transport fails, or a
\* response arrives with its content, refusal text and finish reason.  The
\* content is absent, empty, text that is no JSON, a JSON object the schema
\* rejects, or a JSON object the schema accepts (then `value`).
NoContent == [kind |-> "none"]
EmptyContent == [kind |-> "empty"]
NotJson == [kind |-> "text"]
\* the object `v` of the schema with every member null
Mistyped(v) == [k \in DOMAIN v |-> None]
BadSchema(v) == [kind |-> "json", valid |-> FALSE, value |-> Mistyped(v)]
Valid(v) == [kind |-> "json", valid |-> TRUE, value |-> v]

Upstream(content, refusal, finish_reason) ==
    [transport |-> "ok", content |-> content, refusal |-> refusal,
     finish_reason |-> finish_reason]

FailedUpstream ==
    {[transport |-> "error"]}
    \cup {Upstream(c, r, f) : c \in {NoContent, EmptyContent},
                              r \in {None, "policy"},
                              f \in {"stop", "content_filter", "length"}}
    \cup {Upstream(NotJson, None, "stop")}

LLMResponses(outputs) ==
    FailedUpstream
    \cup {Upstream(BadSchema(v), None, "stop") : v \in outputs}
    \cup {Upstream(Valid(v), r, f) : v \in outputs, r \in {None, "policy"},
                                     f \in {"stop", "content_filter"}}

EmptyResponseMessageBare(finish_reason) == "Empty response from OpenAI"
\* line 87
EmptyResponseMessage(finish_reason) ==
    "Empty response from OpenAI (Finish Reason: " \o Fmt(finish_reason) \o ")"

SchemaRejectsNothing(content) == FALSE
\* line 95: model_validate raises on an object the schema does not admit
SchemaRejects(content) == ~content.valid

\* BaseAgent.execute from the request on: lines 65-102.
Execute(resp) ==
    IF resp.transport # "ok"
    THEN Raise("APIError", "transport")
    ELSE IF resp.content.kind \in {"none", "empty"}
    THEN IF Truthy(resp.refusal)
         THEN Raise("ValueError", "OpenAI Refusal: " \o resp.refusal)
         ELSE IF resp.finish_reason = "content_filter"
         THEN Raise("ValueError", "OpenAI response was filtered due to content policy.")
         ELSE Raise("ValueError", EmptyResponseMessage(resp.finish_reason))
    ELSE IF resp.content.kind = "text"
    THEN Raise("JSONDecodeError", "json.loads")
    ELSE IF SchemaRejects(resp.content)
    THEN Raise("ValidationError", "model_validate")
    ELSE Return(resp.content.value)

\* settings.OPENAI_MODEL (app/core/config.py); ImageAnalysisAgent is built
\* with "gpt-4o", every other agent with the setting
OPENAI_MODEL == "gpt-4.1-nano"
AgentModel(stage) == IF stage = "image_analysis" THEN "gpt-4o" ELSE OPENAI_MODEL
\* the image_url an agent's run hands to execute: the Image Analysis agent
\* its image, the others none
AgentImage(stage, args) == IF stage = "image_analysis" THEN args.image_url ELSE None

vision_keywords == <<"gpt-4", "4o", "4.1", "vision">>

SelectModelCaseSensitive(model, image) ==
    IF Truthy(image)
       /\ ~\E n \in 1..Len(vision_keywords) : Contains(model, vision_keywords[n])
    THEN "gpt-4o"
    ELSE model
\* lines 30-38: the model of the request
SelectModel(model, image) ==
    IF Truthy(image)
       /\ ~\E n \in 1..Len(vision_keywords) :
              Contains(LowerCase(model), vision_keywords[n])
    THEN "gpt-4o"
    ELSE model

---------------------------------------------------------------------------
(* The outputs the agents' schemas admit (app/schemas/agents.py).  The     *)
(* schemas type the fields and nothing more.                               *)

ImageAnalysisOutputs == {[visual_context_summary |-> "a ring with a clear stone"]}
ConceptOutputs == {[title |-> "Eternal"]}
VisualDirectorOutputs == {[visual_style_summary |-> "slow orbit"]}

\* The Prompt Refinement answer of the k-th call: a text of its own each time.
PromptText(k) == "silver ring, take " \o ToString(k)
PromptRefinementOutputs(k) ==
    {[final_prompt |-> PromptText(k),
      individual_prompts |-> <<"scene of " \o PromptText(k)>>,
      rationale |-> "r", negative_prompt |-> None]}

\* QAAgentOutput: a float, a string, a list and a boolean, each as the model
\* wrote it; no validator ties `approved` to `score`.
QAOutput(score, approved, text) ==
    [score |-> score, feedback |-> text, critique_points |-> <<>>,
     approved |-> approved]
QAAgentOutputs ==
    {QAOutput(60, FALSE, "weak macro detail"), QAOutput(95, FALSE, ""),
     QAOutput(95, TRUE, "meets the bar"), QAOutput(60, TRUE, "")}

\* ContinuityControlOutput: likewise
ContinuityOutput(score, approved, violation_type, text) ==
    [score |-> score, feedback |-> text, violation_type |-> violation_type,
     approved |-> approved]
ContinuityControlOutputs ==
    {ContinuityOutput(0, FALSE, "Model Issue", "no human is excluded"),
     ContinuityOutput(50, FALSE, None, ""),
     ContinuityOutput(100, TRUE, None, "all locks present"),
     ContinuityOutput(0, TRUE, None, "")}

---------------------------------------------------------------------------
(* VideoOrchestrator.process_request (app/services/orchestrator.py) *)

max_iterations == 3

\* The external calls of a request but the polls, which poll_i counts
Stages == {"image_analysis", "concept", "visual_director", "prompt_refinement",
           "qa", "continuity", "submit", "download"}

\* Nothing of a request has run yet
PipelineIdle ==
    /\ request \in Requests
    /\ error = NoError
    /\ visual_context = None
    /\ concept = NoOutput
    /\ visual_plan = NoOutput
    /\ i = 0
    /\ iterations = 0
    /\ feedback = None
    /\ final_prompt_output = NoOutput
    /\ qa_score = 0
    /\ last_qa_output = NoOutput
    /\ last_continuity_output = NoOutput
    /\ poll_i = 0
    /\ generation_id = None
    /\ poll_url = None
    /\ generation_result = NoOutput
    /\ saved = {}
    /\ response = NoResponse
    /\ calls = [s \in Stages |-> 0]
    /\ sent = NoOutput
    /\ final_poll = NoOutput
    /\ qa_iter = 0
    /\ continuity_iter = 0
    /\ approved_exit = FALSE
    /\ submitted = NoOutput
    /\ save_outcome = None
    /\ warned = FALSE
    /\ inferences = 0
    /\ progress = NoOutput

\* One request is in flight
Alone == active = 1 /\ other = NoOutput

Init ==
    /\ PipelineIdle
    /\ Alone
    /\ pc = "received"
    /\ self_model = OPENAI_MODEL
    /\ execute_image = None
    /\ current_model = None

AbortUnlessContinuity(stage, r) ==
    IF stage = "continuity"
    THEN pc' = "generate" /\ error' = error
    ELSE /\ pc' = "error"
         /\ error' = [raised |-> TRUE, stage |-> stage, type |-> r.type, msg |-> r.msg]

AbortRetriesGeneration(stage, r) ==
    IF stage \in {"submit", "poll"}
    THEN pc' = "generate" /\ error' = error
    ELSE /\ pc' = "error"
         /\ error' = [raised |-> TRUE, stage |-> stage, type |-> r.type, msg |-> r.msg]

\* An exception leaves process_request: nothing after the raise runs.
Abort(stage, r) ==
    /\ pc' = "error"
    /\ error' = [raised |-> TRUE, stage |-> stage, type |-> r.type, msg |-> r.msg]

\* The call of `stage` with `args` is made and ends as r tells.
Called(stage, args, r) ==
    /\ calls' = [calls EXCEPT ![stage] = @ + 1]
    /\ sent' = [agent |-> stage, args |-> args, raised |-> r.raised]

RequestsMadeRetrying(resp) == IF Execute(resp).raised THEN 2 ELSE 1
\* lines 66-73: execute sends one chat.completions.create request
RequestsMade(resp) == 1

\* An agent's run is called with `args`; its execute gets the answer `resp`.
AgentCall(stage, args, resp) ==
    /\ calls' = [calls EXCEPT ![stage] = @ + 1]
    /\ sent' = [agent |-> stage, args |-> args, raised |-> Execute(resp).raised,
                answer |-> resp,
                model |-> SelectModel(AgentModel(stage), AgentImage(stage, args))]
    /\ inferences' = inferences + RequestsMade(resp)

PyBool(b) == IF b THEN "True" ELSE "False"

\* lines 42-51
ConceptInput(req, context) ==
    "Jewellery Type: " \o req.jewellery_type
        \o "\nTarget Gender: " \o req.gender
        \o "\nVideo Theme: " \o req.video_type
        \o "\nModel Included: " \o PyBool(req.is_model)
        \o "\nMusic Enabled: " \o PyBool(req.is_music)
        \o "\nDuration: " \o ToString(req.duration) \o " seconds"
        \o "\nProduct Description: "
        \o StrOr(req.product_description, "No description provided.")
        \o "\nVisual Analysis: " \o context

\* line 81
QADescription(req) ==
    "Target: " \o req.video_type \o " video for " \o req.jewellery_type
        \o ". Description: " \o StrOr(req.product_description, "None")

generationVars == <<poll_i, generation_id, poll_url, generation_result, saved,
                    response, submitted, save_outcome, final_poll, warned,
                    progress>>
loopVars == <<i, iterations, feedback, final_prompt_output, qa_score,
              last_qa_output, last_continuity_output, qa_iter, continuity_iter,
              approved_exit>>

\* generate_video (app/api/v1/endpoints/generation.py, lines 10-22): the log
\* line of line 14 slices the description before the try statement, then
\* process_request is awaited.
DescriptionHead(req) ==
    IF req.product_description = None
    THEN Raise("TypeError", "'NoneType' object is not subscriptable")
    ELSE Return(req.product_description)

GenerateVideo ==
    /\ pc = "received"
    /\ LET r == DescriptionHead(request) IN
       IF r.raised
       THEN Abort("endpoint", r)
       ELSE pc' = "analyze" /\ UNCHANGED error
    /\ UNCHANGED <<flowVars, selectionVars, request, visual_context, concept,
                   visual_plan, loopVars,
                   generationVars, calls, sent, inferences>>

\* lines 34-37
ImageAnalysis ==
    /\ pc = "analyze"
    /\ \E resp \in LLMResponses(ImageAnalysisOutputs) :
         LET r == Execute(resp) IN
         /\ AgentCall("image_analysis", [image_url |-> request.base64_image], resp)
         /\ IF r.raised
            THEN Abort("image_analysis", r) /\ UNCHANGED visual_context
            ELSE /\ visual_context' = r.value.visual_context_summary
                 /\ pc' = "concept"
                 /\ UNCHANGED error
    /\ UNCHANGED <<flowVars, selectionVars, request, concept, visual_plan,
                   loopVars, generationVars>>

\* lines 40-53
ConceptGeneration ==
    /\ pc = "concept"
    /\ \E resp \in LLMResponses(ConceptOutputs) :
         LET r == Execute(resp) IN
         /\ AgentCall("concept", [input_data |-> ConceptInput(request, visual_context)], resp)
         /\ IF r.raised
            THEN Abort("concept", r) /\ UNCHANGED concept
            ELSE /\ concept' = r.value
                 /\ pc' = "direct"
                 /\ UNCHANGED error
    /\ UNCHANGED <<flowVars, selectionVars, request, visual_context,
                   visual_plan, loopVars, generationVars>>

\* lines 56-69: the Visual Director call, then the loop's locals are set
VisualDirection ==
    /\ pc = "direct"
    /\ \E resp \in LLMResponses(VisualDirectorOutputs) :
         LET r == Execute(resp) IN
         /\ AgentCall("visual_director",
                   [concept |-> concept, visual_context |-> visual_context], resp)
         /\ IF r.raised
            THEN Abort("visual_director", r) /\ UNCHANGED visual_plan
            ELSE /\ visual_plan' = r.value
                 /\ pc' = "refine"
                 /\ UNCHANGED error
    /\ UNCHANGED <<flowVars, selectionVars, request, visual_context, concept,
                   loopVars, generationVars>>

AfterIterationAgain(k) == "refine"
AfterIterationLeaves(k) == "generate"
AfterIterationRedirect(k) == IF k + 1 < max_iterations THEN "direct" ELSE "generate"
\* The for statement of line 71 once iteration i is over: the next
\* iteration, or the code after the loop.
AfterIteration(k) == IF k + 1 < max_iterations THEN "refine" ELSE "generate"

IterationNumberFromZero(k) == k
\* line 72
IterationNumber(k) == k + 1

\* lines 76-78 with the signature of PromptRefinementAgent.run: the three
\* arguments the orchestrator passes, the others at their defaults
RefinementArgs(c, plan, fb) ==
    [concept |-> c, visual_plan |-> plan, feedback |-> fb,
     image_url |-> None, reference_video |-> None, model_consistency |-> TRUE]

\* lines 71-78: the head of an iteration and its Prompt Refinement call
PromptRefinement ==
    /\ pc = "refine"
    /\ i < max_iterations
    /\ iterations' = IterationNumber(i)
    /\ \E resp \in LLMResponses(PromptRefinementOutputs(i + 1)) :
         LET r == Execute(resp) IN
         /\ AgentCall("prompt_refinement",
                   RefinementArgs(concept, visual_plan, feedback), resp)
         /\ IF r.raised
            THEN Abort("prompt_refinement", r) /\ UNCHANGED final_prompt_output
            ELSE /\ final_prompt_output' = r.value
                 /\ pc' = "qa"
                 /\ UNCHANGED error
    /\ UNCHANGED <<flowVars, selectionVars, request, visual_context, concept,
                   visual_plan, i, feedback,
                   qa_score, last_qa_output, last_continuity_output, qa_iter,
                   continuity_iter, approved_exit, generationVars>>

QAFeedbackBare(qa_output) == qa_output.feedback
\* line 91
QAFeedback(qa_output) == "QA Creative Feedback: " \o qa_output.feedback

NextQAScoreBest(old, qa_output) ==
    IF old > qa_output.score THEN old ELSE qa_output.score
\* line 86
NextQAScore(old, qa_output) == qa_output.score

QARejectsByScore(qa_output) == qa_output.score < 90
\* line 89
QARejects(qa_output) == ~qa_output.approved

\* lines 80-92: the Quality Auditor call and the first gate
QualityAudit ==
    /\ pc = "qa"
    /\ \E resp \in LLMResponses(QAAgentOutputs) :
         LET r == Execute(resp) IN
         /\ AgentCall("qa",
                   [prompt_data |-> final_prompt_output,
                    original_requirements |-> QADescription(request)], resp)
         /\ IF r.raised
            THEN /\ Abort("qa", r)
                 /\ UNCHANGED <<i, feedback, qa_score, last_qa_output, qa_iter>>
            ELSE /\ last_qa_output' = r.value
                 /\ qa_iter' = iterations
                 /\ qa_score' = NextQAScore(qa_score, r.value)
                 /\ UNCHANGED error
                 /\ IF QARejects(r.value)
                    THEN /\ feedback' = QAFeedback(r.value)
                         /\ i' = i + 1
                         /\ pc' = AfterIteration(i)
                    ELSE /\ pc' = "continuity"
                         /\ UNCHANGED <<i, feedback>>
    /\ UNCHANGED <<flowVars, selectionVars, request, visual_context, concept,
                   visual_plan, iterations,
                   final_prompt_output, last_continuity_output, continuity_iter,
                   approved_exit, generationVars>>

\* line 106
ContinuityFeedback(continuity_output) ==
    "STRICT RULE VIOLATION (" \o Fmt(continuity_output.violation_type) \o "): "
        \o continuity_output.feedback

AfterApprovalContinue(k) == AfterIteration(k)
\* lines 109-111: both gates passed, `break`
AfterApproval(k) == "generate"

\* lines 94-111: the Continuity Auditor call and the second gate
ContinuityAudit ==
    /\ pc = "continuity"
    /\ \E resp \in LLMResponses(ContinuityControlOutputs) :
         LET r == Execute(resp) IN
         /\ AgentCall("continuity",
                   [final_prompt |-> final_prompt_output, visual_plan |-> visual_plan,
                    is_model |-> request.is_model, video_type |-> request.video_type],
                   resp)
         /\ IF r.raised
            THEN /\ Abort("continuity", r)
                 /\ UNCHANGED <<i, feedback, last_continuity_output, continuity_iter,
                                approved_exit>>
            ELSE /\ last_continuity_output' = r.value
                 /\ continuity_iter' = iterations
                 /\ UNCHANGED error
                 /\ IF ~r.value.approved
                    THEN /\ feedback' = ContinuityFeedback(r.value)
                         /\ i' = i + 1
                         /\ pc' = AfterIteration(i)
                         /\ UNCHANGED approved_exit
                    ELSE /\ pc' = AfterApproval(i)
                         /\ approved_exit' = TRUE
                         /\ UNCHANGED <<i, feedback>>
    /\ UNCHANGED <<flowVars, selectionVars, request, visual_context, concept,
                   visual_plan, iterations,
                   final_prompt_output, qa_score, last_qa_output, qa_iter,
                   generationVars>>

---------------------------------------------------------------------------
(* The video generation client (app/agents/generation_agent.py) *)

\* A JSON value whose Python type the code asks about
JNull == [t |-> "null"]
JStr(s) == [t |-> "str", v |-> s]
JList(l) == [t |-> "list", v |-> l]
EmptyObject == [k \in {} |-> None]

\* Python truthiness of a JSON null, string or list
JTruthy(j) ==
    CASE j.t = "null" -> FALSE
      [] j.t = "str" -> j.v # ""
      [] j.t = "list" -> Len(j.v) > 0

\* `a or b`
Or(a, b) == IF JTruthy(a) THEN a ELSE b

\* `inner = data.get("data", {}) if "data" in data else data`, lines 277 and 319
Inner(data) == IF "data" \in DOMAIN data THEN Get(data, "data", EmptyObject) ELSE data
Enveloped(inner) == [data |-> inner]

\* The metal and stone words of lines 45-54 a prompt text holds
PromptKeywords(prompt) ==
    CASE prompt = "silver ring, take 1" -> {"silver"}
      [] prompt = "silver ring, take 2" -> {"silver"}
      [] prompt = "silver ring, take 3" -> {"silver"}
      [] OTHER -> {}
light_metal_keywords ==
    {"silver", "platinum", "white gold", "palladium", "diamond", "moissanite",
     "white sapphire", "clear stone"}
warm_metal_keywords ==
    {"yellow gold", "rose gold", "22k gold", "18k gold", "24k gold", "emerald",
     "ruby", "red stone", "green stone", "antique gold", "bronze", "copper tone"}

\* _resolve_background, lines 28-104 (the description shortened to its head)
ResolveBackground(prompt) ==
    LET is_light == PromptKeywords(prompt) \cap light_metal_keywords # {}
        is_warm == PromptKeywords(prompt) \cap warm_metal_keywords # {}
    IN  IF is_light /\ ~is_warm
        THEN [color |-> "deep slate gray", hex |-> "#1C1C1C",
              description |-> "premium textured deep slate gray stone surface",
              surface |-> "textured slate gray stone cyclorama"]
        ELSE IF is_warm /\ ~is_light
        THEN [color |-> "warm parchment gray", hex |-> "#E8E8E8",
              description |-> "elegant light ash gray silk fabric surface",
              surface |-> "light gray silk cyclorama"]
        ELSE IF is_light /\ is_warm
        THEN [color |-> "polished smoke gray", hex |-> "#2F2F2F",
              description |-> "premium polished smoke gray marble surface",
              surface |-> "polished gray marble cyclorama"]
        ELSE [color |-> "rich charcoal gray", hex |-> "#121212",
              description |-> "solid rich charcoal gray textured volcanic stone surface",
              surface |-> "charcoal gray textured stone cyclorama"]

Lower(video_type) ==
    CASE video_type = "UGC" -> "ugc"
      [] video_type = "Ecommerce" -> "ecommerce"
      [] OTHER -> video_type

\* lines 115-121
AudioPrompt(video_type, is_music) ==
    IF is_music
    THEN IF Lower(video_type) = "ugc"
         THEN ", soft ambient background music, warm, casual, feel-good, no vocals"
         ELSE ", elegant luxury background score, cinematic, premium, sophisticated, no vocals"
    ELSE ""

\* lines 123-152 (each phrase shortened to its head)
ModelPrompt(bg, video_type, is_model) ==
    IF is_model
    THEN IF Lower(video_type) = "ugc"
         THEN ", woman wearing the jewellery appropriately on her body"
         ELSE ", high-end fashion model, elegant slow-motion pose"
    ELSE IF Lower(video_type) = "ugc"
         THEN ", no people, no human, lifestyle flat-lay"
         ELSE ", no people, no human, product only, product centered on "
                  \o bg.surface \o ", background remains " \o bg.color
                  \o " in every single frame"

\* lines 154-185 (each phrase shortened to its head)
StylePrompt(bg, video_type, is_model) ==
    IF Lower(video_type) = "ugc"
    THEN ", natural daylight, warm golden hour tones"
    ELSE IF is_model
         THEN ", elegant luxury lifestyle background, high-end interior setting"
         ELSE ", " \o bg.description \o ", background remains " \o bg.color
                   \o " from first frame to last frame"

\* lines 190-200
product_lock == "PRODUCT CONSISTENCY ABSOLUTE LOCK: ..."
\* lines 203-210
BackgroundLock(bg) ==
    "BACKGROUND CONSISTENCY ABSOLUTE LOCK: background is " \o bg.color
        \o " (hex " \o bg.hex \o ") and must NOT change in any frame"
ModelLockAlways(is_model) == "MODEL CONSISTENCY ABSOLUTE LOCK: ..."
\* lines 213-220
ModelLock(is_model) ==
    IF is_model THEN "MODEL CONSISTENCY ABSOLUTE LOCK: ..." ELSE ""

EnhancedPromptRewording(prompt, video_type, is_music, is_model) ==
    LET bg == ResolveBackground(prompt) IN
    <<"cinematic jewellery video, " \o prompt, AudioPrompt(video_type, is_music),
      ModelPrompt(bg, video_type, is_model), StylePrompt(bg, video_type, is_model),
      ", 8k resolution, ... no fast zoom. ",
      product_lock, ". ", BackgroundLock(bg),
      IF ModelLock(is_model) # "" THEN ". " \o ModelLock(is_model) ELSE "", ".">>
\* lines 223-237: the f-string, as the sequence of its pieces
EnhancedPrompt(prompt, video_type, is_music, is_model) ==
    LET bg == ResolveBackground(prompt) IN
    <<prompt, AudioPrompt(video_type, is_music), ModelPrompt(bg, video_type, is_model),
      StylePrompt(bg, video_type, is_model),
      ", 8k resolution, ... no fast zoom. ",
      product_lock, ". ", BackgroundLock(bg),
      IF ModelLock(is_model) # "" THEN ". " \o ModelLock(is_model) ELSE "", ".">>

PayloadAlwaysAudio(prompt, image_url, video_type, duration, is_music, is_model) ==
    [prompt |-> EnhancedPrompt(prompt, video_type, is_music, is_model),
     image |-> image_url,
     duration |-> duration,
     resolution |-> "720p",
     movement_amplitude |-> IF Lower(video_type) = "ecommerce" THEN "auto" ELSE "small",
     generate_audio |-> TRUE,
     enhance_prompt |-> FALSE]
\* lines 242-255
Payload(prompt, image_url, video_type, duration, is_music, is_model) ==
    [prompt |-> EnhancedPrompt(prompt, video_type, is_music, is_model),
     image |-> image_url,
     duration |-> duration,
     resolution |-> "720p",
     movement_amplitude |-> IF Lower(video_type) = "ecommerce" THEN "auto" ELSE "small",
     generate_audio |-> is_music,
     enhance_prompt |-> FALSE]

\* What the service may answer a submit: the transport fails, or a response
\* arrives with its status code and body.
SubmitBodies ==
    {Enveloped([id |-> "gen-1", urls |-> [get |-> "https://svc/poll/gen-1"]]),
     [id |-> "gen-1", urls |-> [get |-> "https://svc/poll/gen-1"]],
     [id |-> "gen-1"],
     Enveloped([id |-> "gen-1", urls |-> EmptyObject]),
     Enveloped([urls |-> [get |-> "https://svc/poll/gen-1"]]),
     [id |-> "", urls |-> [get |-> "https://svc/poll/gen-1"]],
     [message |-> "accepted"]}
SubmitResponses ==
    {[transport |-> "error"]}
    \cup {[transport |-> "ok", status_code |-> c, json |-> FALSE] : c \in {200, 500}}
    \cup {[transport |-> "ok", status_code |-> c, json |-> TRUE, data |-> d] :
            c \in {200, 201, 202, 302, 500}, d \in SubmitBodies}

base_url == "https://api.wavespeed.ai/api/v3"

RaiseForStatusErrorsOnly(status_code) == status_code >= 400
\* line 273: httpx's Response.raise_for_status raises HTTPStatusError unless
\* the status is a 2xx one
RaiseForStatus(status_code) == status_code \notin 200..299

MissingIdNever(id) == FALSE
\* line 283: `if not generation_id`
MissingId(id) == ~Truthy(id)

\* lines 261-298 up to the call of _poll_generation
SubmitResult(resp) ==
    IF resp.transport # "ok"
    THEN Raise("HTTPError", "transport")
    ELSE IF resp.status_code \notin {200, 201} /\ RaiseForStatus(resp.status_code)
    THEN Raise("HTTPStatusError", "raise_for_status")
    ELSE IF ~resp.json
    THEN Raise("JSONDecodeError", "response.json")
    ELSE LET inner == Inner(resp.data)
             id == Get(inner, "id", None)
             url == Get(Get(inner, "urls", EmptyObject), "get", None)
         IN  IF MissingId(id)
             THEN Raise("ValueError", "No generation ID returned")
             ELSE Return([generation_id |-> id, poll_url |-> url])

\* line 114: the condition of the warning logged before generation
WarnsBeforeGeneration(score) == score < 90

\* lines 113-125 and GenerationAgent.run down to line 289: the one POST
Submit ==
    /\ pc = "generate"
    /\ warned' = WarnsBeforeGeneration(qa_score)
    /\ submitted' = Payload(final_prompt_output.final_prompt, request.base64_image,
                            request.video_type, request.duration, request.is_music,
                            request.is_model)
    /\ \E resp \in SubmitResponses :
         LET r == SubmitResult(resp) IN
         /\ calls' = [calls EXCEPT !["submit"] = @ + 1]
         /\ sent' = [agent |-> "submit",
                     args |-> [url |-> base_url \o "/vidu/q3/image-to-video"],
                     raised |-> r.raised, answer |-> resp]
         /\ IF r.raised
            THEN Abort("submit", r) /\ UNCHANGED <<generation_id, poll_url, poll_i>>
            ELSE /\ generation_id' = r.value.generation_id
                 \* line 304
                 /\ poll_url' = StrOr(r.value.poll_url,
                                      base_url \o "/predictions/" \o r.value.generation_id)
                 /\ poll_i' = 0
                 /\ pc' = "poll"
                 /\ UNCHANGED error
    /\ UNCHANGED <<flowVars, selectionVars, request, visual_context, concept,
                   visual_plan, loopVars,
                   generation_result, saved, response, save_outcome, final_poll,
                   inferences, progress>>

max_retries == 300

\* What the service may answer a poll
PollBodies ==
    {Enveloped([status |-> "processing"]),
     [id |-> "gen-1"],
     Enveloped([status |-> "completed", outputs |-> JList(<<"https://cdn/a.mp4">>)]),
     [status |-> "success", output |-> JStr("https://cdn/b.mp4")],
     [status |-> "completed", outputs |-> JList(<<>>),
      output |-> JList(<<"https://cdn/c.mp4", "https://cdn/d.mp4">>)],
     Enveloped([status |-> "completed", outputs |-> JList(<<"https://cdn/a.mp4">>),
                output |-> JStr("https://cdn/b.mp4")]),
     [status |-> "completed", url |-> "https://cdn/e.mp4"],
     Enveloped([status |-> "success", outputs |-> JList(<<>>),
                video_url |-> "https://cdn/f.mp4"]),
     [status |-> "completed", outputs |-> JList(<<"">>)],
     [status |-> "completed", outputs |-> JList(<<>>), output |-> JStr(""),
      url |-> "", video_url |-> ""],
     Enveloped([status |-> "success"]),
     Enveloped([status |-> "failed", error |-> "nsfw content"]),
     [status |-> "canceled"]}
PollResponses ==
    {[transport |-> "error"]}
    \cup {[transport |-> "ok", status_code |-> 503]}
    \cup {[transport |-> "ok", status_code |-> 200, data |-> d] : d \in PollBodies}

VideoUrlLastOfList(inner) ==
    LET output == Or(Get(inner, "outputs", JNull), Get(inner, "output", JNull))
        video_url == IF output.t = "list" /\ JTruthy(output)
                     THEN JStr(output.v[Len(output.v)]) ELSE output
    IN  IF JTruthy(video_url)
        THEN video_url.v
        ELSE StrOr(Get(inner, "url", None), Get(inner, "video_url", None))

\* lines 327-339: the result URL of a response with a success status
VideoUrl(inner) ==
    LET output == Or(Get(inner, "outputs", JNull), Get(inner, "output", JNull))
        video_url == IF output.t = "list" /\ JTruthy(output)
                     THEN JStr(output.v[1]) ELSE output
    IN  IF JTruthy(video_url)
        THEN video_url.v
        ELSE StrOr(Get(inner, "url", None), Get(inner, "video_url", None))

NoUrlOnlyWhenMissing(video_url) == video_url = None
\* line 338: `if not video_url`
NoUrl(video_url) == ~Truthy(video_url)

FailureMessageGeneric(inner) == "Generation failed"
\* lines 351-352: the message of the error a failed or canceled job raises
FailureMessage(inner) == "Generation failed: " \o Fmt(Get(inner, "error", "Unknown error"))

NotOkAnswerRaises(status_code) == Raise("HTTPStatusError", "poll status")
\* lines 313-315: an answer whose status is not 200 is slept on and the loop
\* goes on
NotOkAnswer(status_code) == [raised |-> FALSE, continue |-> TRUE]

ReportedStatusUpstream(status) == status
\* line 348: the status of the GenerationOutput
ReportedStatus(status) == "success"

\* One pass of the loop of lines 306-354 on the answer `resp`: the loop goes
\* on ("continue"), returns a GenerationOutput or raises.
PollStep(resp, id) ==
    IF resp.transport # "ok"
    THEN Raise("HTTPError", "transport")
    ELSE IF resp.status_code # 200
    THEN NotOkAnswer(resp.status_code)
    ELSE LET inner == Inner(resp.data)
             status == Get(inner, "status", None)
         IN  IF status \in {"completed", "success"}
             THEN IF NoUrl(VideoUrl(inner))
                  THEN Raise("RuntimeError", "Job completed but no URL returned")
                  ELSE [raised |-> FALSE, continue |-> FALSE,
                        value |-> [video_url |-> VideoUrl(inner),
                                   generation_id |-> id,
                                   status |-> ReportedStatus(status)]]
             ELSE IF status \in {"failed", "canceled"}
             THEN Raise("RuntimeError", FailureMessage(inner))
             ELSE [raised |-> FALSE, continue |-> TRUE]

\* line 324
ProgressDue(k) == (k + 1) % 15 = 0

\* lines 308-325: the entry of line 325 is reached by an attempt whose GET
\* returned, with status 200, and whose number is due
ProgressLogged(resp, k) ==
    resp.transport = "ok" /\ resp.status_code = 200 /\ ProgressDue(k)

\* What attempt k, answered by resp, leaves in the log
ProgressEntry(resp, k) ==
    IF ~ProgressDue(k)
    THEN NoOutput
    ELSE [attempt |-> k + 1,
          answered |-> resp.transport = "ok",
          logged |-> ProgressLogged(resp, k),
          status |-> IF ProgressLogged(resp, k)
                     THEN Get(Inner(resp.data), "status", None) ELSE None]

PollExhaustedOneLate(k) == k >= max_retries
\* The for statement of line 306 once attempt k is over without a result
PollExhausted(k) == k + 1 >= max_retries

\* _poll_generation: one GET and what follows it up to the next GET
Poll ==
    /\ pc = "poll"
    /\ poll_i < max_retries
    /\ \E resp \in PollResponses :
         LET r == PollStep(resp, generation_id)
             timeout == ~r.raised /\ r.continue /\ PollExhausted(poll_i)
             ended == [resp |-> resp, last_attempt |-> PollExhausted(poll_i)]
         IN
         /\ sent' = [agent |-> "poll", args |-> [url |-> poll_url],
                     raised |-> r.raised \/ timeout]
         /\ progress' = ProgressEntry(resp, poll_i)
         /\ IF r.raised
            THEN /\ Abort("poll", r)
                 /\ poll_i' = 0
                 /\ final_poll' = ended
                 /\ UNCHANGED generation_result
            ELSE IF r.continue
            THEN /\ UNCHANGED generation_result
                 /\ IF timeout
                    THEN /\ Abort("poll", Raise("TimeoutError", "Generation timed out polling"))
                         /\ poll_i' = 0
                         /\ final_poll' = ended
                    ELSE /\ poll_i' = poll_i + 1
                         /\ UNCHANGED <<pc, error, final_poll>>
            ELSE /\ generation_result' = r.value
                 /\ pc' = "persist"
                 /\ poll_i' = 0
                 /\ final_poll' = ended
                 /\ UNCHANGED error
    /\ UNCHANGED <<flowVars, selectionVars, request, visual_context, concept,
                   visual_plan, loopVars, calls,
                   generation_id, poll_url, saved, response, submitted, save_outcome,
                   warned, inferences>>

---------------------------------------------------------------------------
(* Asset storage and the response (orchestrator.py, lines 127-187) *)

\* lines 161-167, in the order the dict is walked
artifacts == <<"concept.json", "visual_plan.json", "final_prompt.json",
               "qa_output.json", "continuity_output.json">>

\* Where _save_assets may fail: creating the directory, writing the n-th
\* artifact, the download, its status, writing the video.
SaveOutcomes ==
    {"ok", "makedirs", "download", "raise_for_status", "write video.mp4"}
    \cup {"write " \o artifacts[n] : n \in 1..Len(artifacts)}

\* The files a run of _save_assets that ends in `outcome` has written
Written(outcome, video_url) ==
    LET upto == IF outcome = "makedirs" THEN 0
                ELSE IF \E n \in 1..Len(artifacts) : outcome = "write " \o artifacts[n]
                THEN (CHOOSE n \in 1..Len(artifacts) : outcome = "write " \o artifacts[n]) - 1
                ELSE Len(artifacts)
    IN  {artifacts[n] : n \in 1..upto}
        \cup (IF outcome = "ok" /\ Truthy(video_url) THEN {"video.mp4"} ELSE {})

SaveAssetsRaisesOnFailure(outcome) == outcome # "ok"
\* lines 185-187: `except Exception` logs and does not raise
SaveAssetsRaises(outcome) == FALSE

\* lines 138-147
BuildResponse ==
    [returned |-> TRUE,
     video_url |-> generation_result.video_url,
     generation_id |-> generation_result.generation_id,
     status |-> generation_result.status,
     concept |-> concept,
     visual_plan |-> visual_plan,
     final_prompt |-> final_prompt_output.final_prompt,
     individual_prompts |-> <<>>,
     qa_score |-> qa_score,
     feedback_iterations |-> iterations]

GenerationDirFlat(id) == "video_assets"
\* lines 153-154: os.path.join(base_dir, generation_id)
GenerationDir(id) == "video_assets/" \o id

\* lines 127-147: _save_assets, then the return
SaveAssetsAndReturn ==
    /\ pc = "persist"
    /\ \E outcome \in SaveOutcomes :
         /\ save_outcome' = outcome
         /\ saved' = {<<GenerationDir(generation_result.generation_id), f>> :
                        f \in Written(outcome, generation_result.video_url)}
         /\ IF outcome \in {"download", "raise_for_status", "write video.mp4", "ok"}
               /\ Truthy(generation_result.video_url)
            THEN Called("download", [url |-> generation_result.video_url],
                        [raised |-> outcome = "download"])
            ELSE UNCHANGED <<calls, sent>>
         /\ IF SaveAssetsRaises(outcome)
            THEN /\ Abort("persist", Raise("Exception", outcome))
                 /\ UNCHANGED response
            ELSE /\ pc' = "done"
                 /\ response' = BuildResponse
                 /\ UNCHANGED error
    /\ UNCHANGED <<flowVars, selectionVars, request, visual_context, concept,
                   visual_plan, loopVars, poll_i,
                   generation_id, poll_url, generation_result, submitted, final_poll,
                   warned, inferences, progress>>

---------------------------------------------------------------------------

Next ==
    \/ GenerateVideo
    \/ ImageAnalysis
    \/ ConceptGeneration
    \/ VisualDirection
    \/ PromptRefinement
    \/ QualityAudit
    \/ ContinuityAudit
    \/ Submit
    \/ Poll
    \/ SaveAssetsAndReturn

Spec == Init /\ [][Next]_vars

\* BaseAgent.execute by itself, lines 30-38 and 66-73: an agent constructed
\* with any model name is called with or without an image, and the request
\* it sends names a model.
ModelNames ==
    {"gpt-4.1-nano", "gpt-4o", "gpt-4", "GPT-4-Turbo", "chatgpt-4o-latest",
     "GPT-4O-MINI", "gpt-3.5-turbo", "gpt-5", "o3-mini", "o4-mini",
     "text-davinci-003", "my-Vision-model", "llama-3.1-8b"}
Images == {None, "", "img", "https://cdn/ring.jpg", "data:image/png;base64,AA"}

SelectInit ==
    /\ PipelineIdle
    /\ Alone
    /\ pc = "execute"
    /\ self_model \in ModelNames
    /\ execute_image \in Images
    /\ current_model = None

ExecuteSelect ==
    /\ pc = "execute"
    /\ current_model' = SelectModel(self_model, execute_image)
    /\ pc' = "requested"
    /\ UNCHANGED <<request, error, visual_context, concept, visual_plan, loopVars,
                   generationVars, calls, sent, inferences, self_model, execute_image,
                   flowVars>>

SelectSpec == SelectInit /\ [][ExecuteSelect]_vars

\* The generation client by itself, for any request: the pipeline stands
\* where the first iteration has been approved by both gates and the POST is
\* about to be made.
VideoTypes == {"ecommerce", "Ecommerce", "ugc", "UGC", "promotional"}
Durations == {8, 12}
AnyRequests ==
    {[Request("a solitaire ring", None) EXCEPT
         !.video_type = vt, !.duration = du, !.is_music = mu, !.is_model = im,
         !.model_consistency = mc] :
       vt \in VideoTypes, du \in Durations, mu \in BOOLEAN, im \in BOOLEAN,
       mc \in BOOLEAN}

ApprovedAtOnce ==
    /\ request \in AnyRequests
    /\ pc = "generate"
    /\ error = NoError
    /\ visual_context \in {v.visual_context_summary : v \in ImageAnalysisOutputs}
    /\ concept \in ConceptOutputs
    /\ visual_plan \in VisualDirectorOutputs
    /\ i = 0
    /\ iterations = 1
    /\ feedback = None
    /\ final_prompt_output \in PromptRefinementOutputs(1)
    /\ qa_score = 95
    /\ last_qa_output = QAOutput(95, TRUE, "meets the bar")
    /\ last_continuity_output = ContinuityOutput(100, TRUE, None, "all locks present")
    /\ qa_iter = 1
    /\ continuity_iter = 1
    /\ approved_exit = TRUE
    /\ poll_i = 0
    /\ generation_id = None
    /\ poll_url = None
    /\ generation_result = NoOutput
    /\ saved = {}
    /\ response = NoResponse
    /\ submitted = NoOutput
    /\ save_outcome = None
    /\ final_poll = NoOutput
    /\ warned = FALSE
    /\ calls = [s \in Stages |-> IF s \in {"submit", "download"} THEN 0 ELSE 1]
    /\ inferences = 6
    /\ progress = NoOutput
    /\ sent = [agent |-> "continuity",
               args |-> [final_prompt |-> final_prompt_output,
                         visual_plan |-> visual_plan,
                         is_model |-> request.is_model,
                         video_type |-> request.video_type],
               raised |-> FALSE,
               answer |-> Upstream(Valid(last_continuity_output), None, "stop"),
               model |-> OPENAI_MODEL]
    /\ self_model = OPENAI_MODEL
    /\ execute_image = None
    /\ current_model = None
    /\ Alone

SubmitSpec == ApprovedAtOnce /\ [][Submit]_vars

\* The generation from the POST to the returned response, for any request
GenerationNext ==
    \/ Submit
    \/ Poll
    \/ SaveAssetsAndReturn
GenerationSpec == ApprovedAtOnce /\ [][GenerationNext]_vars

\* Two requests in flight.  generate_video (endpoints/generation.py, lines
\* 16-19) builds a VideoOrchestrator of its own for each request and awaits
\* its process_request; everything process_request and the agents assign is
\* a local of that coroutine or an attribute of an object only it holds.  On
\* the one event loop one coroutine runs at a time and the other is
\* suspended at an await: the variables above are the locals of the running
\* one, `other` those of the suspended one.

\* The locals of the running coroutine
Locals ==
    [request |-> request, pc |-> pc, error |-> error,
     visual_context |-> visual_context, concept |-> concept,
     visual_plan |-> visual_plan, i |-> i, iterations |-> iterations,
     feedback |-> feedback, final_prompt_output |-> final_prompt_output,
     qa_score |-> qa_score, last_qa_output |-> last_qa_output,
     last_continuity_output |-> last_continuity_output, poll_i |-> poll_i,
     generation_id |-> generation_id, poll_url |-> poll_url,
     generation_result |-> generation_result, saved |-> saved,
     response |-> response, calls |-> calls, sent |-> sent,
     final_poll |-> final_poll, qa_iter |-> qa_iter,
     continuity_iter |-> continuity_iter, approved_exit |-> approved_exit,
     submitted |-> submitted, save_outcome |-> save_outcome,
     warned |-> warned, inferences |-> inferences, progress |-> progress]

RestoredSharingFeedback(f, name, shared) ==
    IF name = "feedback" THEN shared ELSE f[name]
\* orchestrator.py, lines 61-69: a local is held by the frame of the
\* coroutine that assigned it, and a resumed coroutine reads its own
Restored(f, name, shared) == f[name]

\* The coroutine whose locals are f goes on running
Resumed(f) ==
    /\ request' = Restored(f, "request", request)
    /\ pc' = Restored(f, "pc", pc)
    /\ error' = Restored(f, "error", error)
    /\ visual_context' = Restored(f, "visual_context", visual_context)
    /\ concept' = Restored(f, "concept", concept)
    /\ visual_plan' = Restored(f, "visual_plan", visual_plan)
    /\ i' = Restored(f, "i", i)
    /\ iterations' = Restored(f, "iterations", iterations)
    /\ feedback' = Restored(f, "feedback", feedback)
    /\ final_prompt_output' = Restored(f, "final_prompt_output", final_prompt_output)
    /\ qa_score' = Restored(f, "qa_score", qa_score)
    /\ last_qa_output' = Restored(f, "last_qa_output", last_qa_output)
    /\ last_continuity_output' = Restored(f, "last_continuity_output", last_continuity_output)
    /\ poll_i' = Restored(f, "poll_i", poll_i)
    /\ generation_id' = Restored(f, "generation_id", generation_id)
    /\ poll_url' = Restored(f, "poll_url", poll_url)
    /\ generation_result' = Restored(f, "generation_result", generation_result)
    /\ saved' = Restored(f, "saved", saved)
    /\ response' = Restored(f, "response", response)
    /\ calls' = Restored(f, "calls", calls)
    /\ sent' = Restored(f, "sent", sent)
    /\ final_poll' = Restored(f, "final_poll", final_poll)
    /\ qa_iter' = Restored(f, "qa_iter", qa_iter)
    /\ continuity_iter' = Restored(f, "continuity_iter", continuity_iter)
    /\ approved_exit' = Restored(f, "approved_exit", approved_exit)
    /\ submitted' = Restored(f, "submitted", submitted)
    /\ save_outcome' = Restored(f, "save_outcome", save_outcome)
    /\ warned' = Restored(f, "warned", warned)
    /\ inferences' = Restored(f, "inferences", inferences)
    /\ progress' = Restored(f, "progress", progress)

\* The running coroutine awaits a call that is in flight and the event loop
\* resumes the other one, whose call has returned.
Yield ==
    /\ other # NoOutput
    /\ other.pc \notin {"done", "error"}
    /\ active' = 3 - active
    /\ other' = Locals
    /\ Resumed(other)
    /\ UNCHANGED selectionVars

Running(f) ==
    /\ request = f.request
    /\ pc = f.pc
    /\ error = f.error
    /\ visual_context = f.visual_context
    /\ concept = f.concept
    /\ visual_plan = f.visual_plan
    /\ i = f.i
    /\ iterations = f.iterations
    /\ feedback = f.feedback
    /\ final_prompt_output = f.final_prompt_output
    /\ qa_score = f.qa_score
    /\ last_qa_output = f.last_qa_output
    /\ last_continuity_output = f.last_continuity_output
    /\ poll_i = f.poll_i
    /\ generation_id = f.generation_id
    /\ poll_url = f.poll_url
    /\ generation_result = f.generation_result
    /\ saved = f.saved
    /\ response = f.response
    /\ calls = f.calls
    /\ sent = f.sent
    /\ final_poll = f.final_poll
    /\ qa_iter = f.qa_iter
    /\ continuity_iter = f.continuity_iter
    /\ approved_exit = f.approved_exit
    /\ submitted = f.submitted
    /\ save_outcome = f.save_outcome
    /\ warned = f.warned
    /\ inferences = f.inferences
    /\ progress = f.progress

\* The locals of a request just received
Received(req) ==
    [request |-> req, pc |-> "received", error |-> NoError, visual_context |-> None,
     concept |-> NoOutput, visual_plan |-> NoOutput, i |-> 0, iterations |-> 0,
     feedback |-> None, final_prompt_output |-> NoOutput, qa_score |-> 0,
     last_qa_output |-> NoOutput, last_continuity_output |-> NoOutput,
     poll_i |-> 0, generation_id |-> None, poll_url |-> None,
     generation_result |-> NoOutput, saved |-> {}, response |-> NoResponse,
     calls |-> [s \in Stages |-> 0], sent |-> NoOutput, final_poll |-> NoOutput,
     qa_iter |-> 0, continuity_iter |-> 0, approved_exit |-> FALSE,
     submitted |-> NoOutput, save_outcome |-> None, warned |-> FALSE,
     inferences |-> 0, progress |-> NoOutput]

\* The locals of a request whose first iteration was approved and whose
\* job, submitted under `id`, was found completed with `url` by the first poll
Generated(req, id, url) ==
    LET prompt == CHOOSE o \in PromptRefinementOutputs(1) : TRUE
        answer == [transport |-> "ok", status_code |-> 200,
                   data |-> Enveloped([status |-> "completed",
                                       outputs |-> JList(<<url>>)])]
    IN  [Received(req) EXCEPT
           !.pc = "persist",
           !.visual_context =
               (CHOOSE o \in ImageAnalysisOutputs : TRUE).visual_context_summary,
           !.concept = CHOOSE o \in ConceptOutputs : TRUE,
           !.visual_plan = CHOOSE o \in VisualDirectorOutputs : TRUE,
           !.iterations = 1,
           !.final_prompt_output = prompt,
           !.qa_score = 95,
           !.last_qa_output = QAOutput(95, TRUE, "meets the bar"),
           !.last_continuity_output =
               ContinuityOutput(100, TRUE, None, "all locks present"),
           !.generation_id = id,
           !.poll_url = base_url \o "/predictions/" \o id,
           !.generation_result =
               [video_url |-> url, generation_id |-> id, status |-> "success"],
           !.calls = [s \in Stages |-> IF s = "download" THEN 0 ELSE 1],
           !.sent = [agent |-> "poll",
                     args |-> [url |-> base_url \o "/predictions/" \o id],
                     raised |-> FALSE],
           !.final_poll = [resp |-> answer, last_attempt |-> FALSE],
           !.qa_iter = 1,
           !.continuity_iter = 1,
           !.approved_exit = TRUE,
           !.submitted = Payload(prompt.final_prompt, req.base64_image,
                                 req.video_type, req.duration, req.is_music,
                                 req.is_model),
           !.inferences = 6]

\* The locals of a request about to start its third iteration: in the
\* first the Continuity Auditor rejected the prompt, in the second the
\* Quality Auditor did
Refining(req) ==
    LET prompt == CHOOSE o \in PromptRefinementOutputs(2) : TRUE
        verdict == QAOutput(60, FALSE, "weak macro detail")
        args == [prompt_data |-> prompt, original_requirements |-> QADescription(req)]
    IN  [Received(req) EXCEPT
           !.pc = "refine",
           !.visual_context =
               (CHOOSE o \in ImageAnalysisOutputs : TRUE).visual_context_summary,
           !.concept = CHOOSE o \in ConceptOutputs : TRUE,
           !.visual_plan = CHOOSE o \in VisualDirectorOutputs : TRUE,
           !.i = 2,
           !.iterations = 2,
           !.feedback = QAFeedback(verdict),
           !.final_prompt_output = prompt,
           !.qa_score = 60,
           !.last_qa_output = verdict,
           !.last_continuity_output =
               ContinuityOutput(0, FALSE, "Model Issue", "no human is excluded"),
           !.calls = [s \in Stages |->
                        CASE s \in {"prompt_refinement", "qa"} -> 2
                          [] s \in {"submit", "download"} -> 0
                          [] OTHER -> 1],
           !.sent = [agent |-> "qa", args |-> args, raised |-> FALSE,
                     answer |-> Upstream(Valid(verdict), None, "stop"),
                     model |-> SelectModel(AgentModel("qa"), AgentImage("qa", args))],
           !.qa_iter = 2,
           !.continuity_iter = 1,
           !.inferences = 8]

\* Two different requests
FirstRequest == Request("a solitaire ring", "videos/ref.mp4")
SecondRequest ==
    [Request("a gold bangle", None) EXCEPT
        !.jewellery_type = "bangle", !.video_type = "ugc", !.is_model = TRUE]

\* One request has just been received while the other is in its refinement
\* loop, or both have had their video generated, each under the id the
\* service gave its job, and are about to save their assets.  (The submit
\* and the 300 polls in between run as in Spec; they are not interleaved
\* here.)
ConcurrentInit ==
    /\ active = 1
    /\ \/ Running(Received(FirstRequest)) /\ other = Refining(SecondRequest)
       \/ /\ Running(Generated(FirstRequest, "gen-1", "https://cdn/a.mp4"))
          /\ other = Generated(SecondRequest, "gen-2", "https://cdn/b.mp4")
    /\ self_model = OPENAI_MODEL
    /\ execute_image = None
    /\ current_model = None

ConcurrentNext ==
    \/ GenerateVideo
    \/ ImageAnalysis
    \/ ConceptGeneration
    \/ VisualDirection
    \/ PromptRefinement
    \/ QualityAudit
    \/ ContinuityAudit
    \/ SaveAssetsAndReturn
    \/ Yield
ConcurrentSpec == ConcurrentInit /\ [][ConcurrentNext]_vars

\* Every external call returns or fails in the end (each call has a request
\* timeout), so the coroutine is always resumed: a step that can be taken is
\* taken.
FairSpec == Spec /\ WF_vars(Next)

---------------------------------------------------------------------------
(* The claims *)

AfterLoop == pc \in {"generate", "poll", "persist", "done"}
    \/ (pc = "error" /\ error.stage \in {"submit", "poll"})

\* C1: a response reports a feedback_iterations between 1 and 3 that is the
\* number of Prompt Refinement calls the request made, and no request makes
\* more than 3 Prompt Refinement calls.
C1_IterationsReported ==
    /\ calls.prompt_refinement <= 3
    /\ pc = "done" =>
         /\ response.feedback_iterations \in 1..3
         /\ response.feedback_iterations = calls.prompt_refinement

C1_Witness ==
    /\ pc = "done"
    /\ response.feedback_iterations = 3
    /\ calls.prompt_refinement = 3

\* C2: the Continuity Auditor is called only on a prompt the Quality Auditor
\* has approved in the same iteration: at every Continuity call the latest
\* QA output judged this iteration's prompt and approved it, and the prompt
\* handed to Continuity is that prompt.
C2_ContinuityOnlyAfterQAApproval ==
    (sent # NoOutput /\ sent.agent = "continuity") =>
        /\ qa_iter = iterations
        /\ last_qa_output.approved
        /\ calls.qa = iterations
        /\ sent.args.final_prompt.final_prompt = PromptText(iterations)
        /\ calls.continuity <= calls.qa

C2_Witness ==
    /\ sent # NoOutput /\ sent.agent = "continuity" /\ ~sent.raised
    /\ iterations = 2
    /\ continuity_iter = 2
    /\ last_continuity_output.approved

\* C3: the feedback handed to Prompt Refinement is None in iteration 1; in
\* iteration i+1 it is a non-empty string made of the feedback text of the
\* gate that rejected iteration i: the QA-prefixed text of iteration i's QA
\* output when QA rejected, the strict-rule-prefixed text with the violation
\* tag of iteration i's Continuity output when Continuity rejected.
C3_FeedbackFromRejectingGate ==
    (sent # NoOutput /\ sent.agent = "prompt_refinement") =>
        IF iterations = 1
        THEN sent.args.feedback = None
        ELSE /\ sent.args.feedback # None
             /\ Len(sent.args.feedback) > 0
             /\ qa_iter = iterations - 1
             /\ IF ~last_qa_output.approved
                THEN sent.args.feedback =
                         "QA Creative Feedback: " \o last_qa_output.feedback
                ELSE /\ continuity_iter = iterations - 1
                     /\ ~last_continuity_output.approved
                     /\ sent.args.feedback =
                          "STRICT RULE VIOLATION ("
                              \o Fmt(last_continuity_output.violation_type)
                              \o "): " \o last_continuity_output.feedback

C3_Witness ==
    /\ sent # NoOutput /\ sent.agent = "prompt_refinement"
    /\ iterations = 3
    /\ last_qa_output.approved
    /\ sent.args.feedback = "STRICT RULE VIOLATION (None): "

\* C4: when all 3 iterations were rejected the request goes on: the
\* generation client is called exactly once, with the final_prompt of
\* iteration 3, and when generation succeeds a response is returned with
\* status success, feedback_iterations 3 and the QA score of iteration 3.
AllRejected == i = 3

C4_ExhaustedLoopStillGenerates ==
    AllRejected =>
        /\ AfterLoop
        /\ iterations = 3 /\ qa_iter = 3
        /\ calls.submit = IF pc = "generate" THEN 0 ELSE 1
        /\ calls.submit = 1 => submitted.prompt[1] = PromptText(3)
        /\ pc \in {"persist", "done"} => generation_result.status = "success"
        /\ pc = "done" =>
             /\ response.returned
             /\ response.status = "success"
             /\ response.feedback_iterations = 3
             /\ response.qa_score = last_qa_output.score

C4_Witness ==
    /\ AllRejected
    /\ pc = "done"
    /\ calls.continuity = 3
    /\ ~last_continuity_output.approved
    /\ response.feedback_iterations = 3

\* C5: when QA and Continuity both approve the prompt of iteration k, no
\* further Prompt Refinement, QA or Continuity call is made, generation uses
\* the prompt of iteration k and the response reports feedback_iterations k
\* and the QA score of iteration k.
BothApproved ==
    /\ calls.continuity > 0
    /\ qa_iter = iterations /\ last_qa_output.approved
    /\ continuity_iter = iterations /\ last_continuity_output.approved

C5_ApprovalEndsLoop ==
    BothApproved =>
        /\ AfterLoop
        /\ calls.prompt_refinement = iterations
        /\ calls.qa = iterations
        /\ calls.continuity <= iterations
        /\ calls.submit = IF pc = "generate" THEN 0 ELSE 1
        /\ calls.submit = 1 => submitted.prompt[1] = PromptText(iterations)
        /\ pc = "done" =>
             /\ response.feedback_iterations = iterations
             /\ response.qa_score = last_qa_output.score

\* QA 6.0 on iteration 1, then QA 9.5 and Continuity approval on iteration 2
C5_Witness ==
    /\ BothApproved
    /\ pc = "done"
    /\ feedback = "QA Creative Feedback: weak macro detail"
    /\ response.feedback_iterations = 2
    /\ response.qa_score = 95

\* C6: every Quality Auditor output the loop acts on has approved true
\* exactly when its score is at least 9.0.
C6_QAApprovedIffScoreAtLeast9 ==
    qa_iter > 0 => (last_qa_output.approved <=> last_qa_output.score >= 90)

\* C7: every Continuity Auditor output the loop acts on has score 0 or 10
\* and approved true exactly when its score is 10.
C7_ContinuityScoreBinary ==
    continuity_iter > 0 =>
        /\ last_continuity_output.score \in {0, 100}
        /\ last_continuity_output.approved <=> last_continuity_output.score = 100

\* C8: when an agent call fails the request ends there with that error: the
\* failing call is the last external call of the request (no retry, no later
\* stage), the generation client is not called, nothing is persisted and no
\* response is returned.
AgentStages == {"image_analysis", "concept", "visual_director",
                "prompt_refinement", "qa", "continuity"}
StageRank ==
    [image_analysis |-> 1, concept |-> 2, visual_director |-> 3,
     prompt_refinement |-> 4, qa |-> 5, continuity |-> 6, submit |-> 7,
     download |-> 8]

AgentFailed == sent # NoOutput /\ sent.agent \in AgentStages /\ sent.raised

C8_AgentFailureAborts ==
    /\ [](AgentFailed =>
            /\ pc = "error" /\ error.raised /\ error.stage = sent.agent
            /\ calls.submit = 0 /\ calls.download = 0
            /\ submitted = NoOutput /\ generation_result = NoOutput
            /\ saved = {} /\ save_outcome = None
            /\ response = NoResponse
            /\ StageRank[sent.agent] <= 3 =>
                 /\ calls[sent.agent] = 1
                 /\ \A t \in AgentStages :
                      StageRank[t] > StageRank[sent.agent] => calls[t] = 0
            /\ StageRank[sent.agent] > 3 =>
                 /\ calls.prompt_refinement = iterations
                 /\ calls.qa = IF sent.agent = "prompt_refinement"
                               THEN iterations - 1 ELSE iterations
                 /\ sent.agent # "continuity" => continuity_iter < iterations)
    /\ [][pc # "error"]_vars

C8_Witness ==
    /\ AgentFailed
    /\ sent.agent = "continuity"
    /\ iterations = 2
    /\ pc = "error"
    /\ error.type = "ValidationError"

\* C9: however _save_assets ends (the directory, any artifact, the download
\* or the video file failing), the request ends in the response it returns
\* when storage succeeds, and no error is raised.
C9_StorageFailureNotRaised ==
    save_outcome # None =>
        /\ pc = "done"
        /\ error = NoError
        /\ response.returned
        /\ response = BuildResponse

C9_Witness ==
    /\ pc = "done"
    /\ save_outcome = "write qa_output.json"
    /\ saved = {<<"video_assets/gen-1", f>> :
                  f \in {"concept.json", "visual_plan.json", "final_prompt.json"}}
    /\ response.returned

\* C10: when the polling ends on a 200 answer with status completed or
\* success and a populated output (`outputs`, else `output`: a non-empty
\* string, or a list whose first element is one), within the 300 attempts,
\* the poll returns a GenerationOutput whose video_url is that output (the
\* first element of a list) and whose generation_id is the submitted job's
\* id, and the request polls no more.
SuppliedOutput(inner) ==
    LET o == IF "outputs" \in DOMAIN inner /\ JTruthy(inner.outputs)
             THEN inner.outputs
             ELSE Get(inner, "output", JNull)
    IN  CASE o.t = "list" -> IF Len(o.v) > 0 THEN o.v[1] ELSE ""
          [] o.t = "str" -> o.v
          [] OTHER -> ""

EndedOnSuccessWithOutput ==
    /\ final_poll # NoOutput
    /\ final_poll.resp.transport = "ok"
    /\ final_poll.resp.status_code = 200
    /\ Get(Inner(final_poll.resp.data), "status", None) \in {"completed", "success"}
    /\ SuppliedOutput(Inner(final_poll.resp.data)) # ""

C10_PollReturnsSuppliedOutput ==
    EndedOnSuccessWithOutput =>
        /\ pc \in {"persist", "done"}
        /\ generation_result.video_url = SuppliedOutput(Inner(final_poll.resp.data))
        /\ generation_result.generation_id = generation_id
        /\ generation_result.status = "success"

\* the 300th answer is the success, its output a list of two
C10_Witness ==
    /\ EndedOnSuccessWithOutput
    /\ final_poll.last_attempt
    /\ pc = "persist"
    /\ generation_result.video_url = "https://cdn/c.mp4"
    /\ generation_result.generation_id = "gen-1"

\* C11: when the polling ends on a 200 answer whose status is failed or
\* canceled, the request ends there in a RuntimeError whose message carries
\* the answer's `error` text ("Unknown error" when the answer has none): the
\* poll is the last external call made, no GenerationOutput exists, nothing
\* is stored and no response is returned.
EndedOnFailureStatus ==
    /\ final_poll # NoOutput
    /\ final_poll.resp.transport = "ok"
    /\ final_poll.resp.status_code = 200
    /\ Get(Inner(final_poll.resp.data), "status", None) \in {"failed", "canceled"}

UpstreamError ==
    LET inner == Inner(final_poll.resp.data)
    IN  IF "error" \in DOMAIN inner THEN inner.error ELSE "Unknown error"

C11_FailureStatusIsFatal ==
    EndedOnFailureStatus =>
        /\ pc = "error"
        /\ error.raised /\ error.stage = "poll" /\ error.type = "RuntimeError"
        /\ error.msg = "Generation failed: " \o UpstreamError
        /\ sent.agent = "poll" /\ sent.raised
        /\ poll_i = 0
        /\ generation_result = NoOutput
        /\ save_outcome = None /\ saved = {} /\ calls.download = 0
        /\ response = NoResponse

\* the first answer of the job is the failure, and it names its cause
C11_Witness ==
    /\ EndedOnFailureStatus
    /\ ~final_poll.last_attempt
    /\ pc = "error"
    /\ error.msg = "Generation failed: nsfw content"

\* C12: the polling of a job is bounded.  While the job is polled fewer than
\* 300 GETs have been made, and every GET either ends the polling or is
\* counted; the GET that gets a non-terminal answer (a status other than 200,
\* or a 200 answer with no terminal status) ends the polling exactly when it
\* is the 300th, and then in a TimeoutError.  A polling that has ended has
\* ended in one of: a GenerationOutput, a fatal error, the timeout.
NonTerminalAnswer(resp) ==
    /\ resp.transport = "ok"
    /\ \/ resp.status_code # 200
       \/ Get(Inner(resp.data), "status", None)
             \notin {"completed", "success", "failed", "canceled"}

PollReturned ==
    /\ pc \in {"persist", "done"} /\ error = NoError
    /\ generation_result # NoOutput
PollFailed ==
    /\ pc = "error" /\ error.stage = "poll" /\ error.type # "TimeoutError"
    /\ generation_result = NoOutput
PollTimedOut ==
    /\ pc = "error" /\ error.stage = "poll" /\ error.type = "TimeoutError"
    /\ generation_result = NoOutput

C12_PollBounded ==
    /\ [](pc = "poll" => poll_i \in 0..299 /\ final_poll = NoOutput)
    /\ [](final_poll # NoOutput =>
            /\ PollReturned \/ PollFailed \/ PollTimedOut
            /\ PollTimedOut <=> NonTerminalAnswer(final_poll.resp)
            /\ NonTerminalAnswer(final_poll.resp) => final_poll.last_attempt)
    /\ [](generation_result # NoOutput \/ (pc = "error" /\ error.stage = "poll")
            => final_poll # NoOutput)
    /\ [][pc = "poll" =>
            \/ pc' = "poll" /\ poll_i' = poll_i + 1
            \/ pc' \in {"persist", "error"} /\ final_poll' # NoOutput]_vars

\* 299 answers that are not 200, then a 200 answer still in progress
C12_Witness ==
    /\ PollTimedOut
    /\ final_poll.last_attempt
    /\ final_poll.resp.status_code = 200
    /\ Get(Inner(final_poll.resp.data), "status", None) = "processing"

\* C13: when the polling ends on a 200 answer with status completed or
\* success in which none of `outputs`, `output`, `url`, `video_url` holds a
\* non-empty URL, the request ends in a RuntimeError and no GenerationOutput
\* exists; and no GenerationOutput, and no response, ever has an empty
\* video_url.
UrlsIn(j) ==
    CASE j.t = "str" -> {j.v}
      [] j.t = "list" -> {j.v[n] : n \in 1..Len(j.v)}
      [] OTHER -> {}

FoundUrls(inner) ==
    (UrlsIn(Get(inner, "outputs", JNull)) \cup UrlsIn(Get(inner, "output", JNull))
        \cup {Get(inner, "url", None), Get(inner, "video_url", None)})
    \ {"", None}

EndedOnSuccessWithoutUrl ==
    /\ final_poll # NoOutput
    /\ final_poll.resp.transport = "ok"
    /\ final_poll.resp.status_code = 200
    /\ Get(Inner(final_poll.resp.data), "status", None) \in {"completed", "success"}
    /\ FoundUrls(Inner(final_poll.resp.data)) = {}

C13_SuccessWithoutUrlIsFatal ==
    /\ EndedOnSuccessWithoutUrl =>
          /\ pc = "error"
          /\ error.raised /\ error.stage = "poll" /\ error.type = "RuntimeError"
          /\ generation_result = NoOutput
          /\ response = NoResponse
    /\ generation_result # NoOutput => generation_result.video_url \notin {"", None}
    /\ response # NoResponse => response.video_url \notin {"", None}

\* every tolerated shape is there and every one is empty
C13_Witness ==
    /\ EndedOnSuccessWithoutUrl
    /\ {"outputs", "output", "url", "video_url"} \subseteq DOMAIN Inner(final_poll.resp.data)
    /\ pc = "error"
    /\ error.msg = "Job completed but no URL returned"

\* C14: when the submit POST is answered by a JSON body that has no `id`
\* (under `data` when the body has a `data` member), the request ends in the
\* error the submit raises: the POST is the last external call of the
\* request, so no poll GET is made.
SubmitAnswered == sent # NoOutput /\ sent.agent = "submit"

AnswerLacksId ==
    /\ SubmitAnswered
    /\ sent.answer.transport = "ok"
    /\ sent.answer.json
    /\ "id" \notin DOMAIN Inner(sent.answer.data)

C14_NoIdNoPoll ==
    AnswerLacksId =>
        /\ pc = "error"
        /\ error.raised /\ error.stage = "submit"
        /\ generation_id = None /\ poll_url = None
        /\ poll_i = 0 /\ final_poll = NoOutput
        /\ generation_result = NoOutput
        /\ response = NoResponse

\* a 200 answer with a polling URL under `data` and no id
C14_Witness ==
    /\ AnswerLacksId
    /\ sent.answer.status_code = 200
    /\ "data" \in DOMAIN sent.answer.data
    /\ "urls" \in DOMAIN Inner(sent.answer.data)
    /\ pc = "error"
    /\ error.type = "ValueError"

\* C15: when the submit POST is answered with a status outside 200..299,
\* whatever its body, the request ends in the HTTPStatusError: the POST is
\* the last external call, no poll GET is made, and no request makes a
\* second POST.
NonSuccessAnswer ==
    /\ SubmitAnswered
    /\ sent.answer.transport = "ok"
    /\ sent.answer.status_code \notin 200..299

C15_NonSuccessSubmitIsFatal ==
    /\ calls.submit <= 1
    /\ NonSuccessAnswer =>
          /\ pc = "error"
          /\ error.raised /\ error.stage = "submit" /\ error.type = "HTTPStatusError"
          /\ calls.submit = 1
          /\ generation_id = None
          /\ poll_i = 0 /\ final_poll = NoOutput
          /\ generation_result = NoOutput
          /\ response = NoResponse

\* a redirect whose body carries an id and a polling URL
C15_Witness ==
    /\ NonSuccessAnswer
    /\ sent.answer.status_code = 302
    /\ sent.answer.json
    /\ Get(Inner(sent.answer.data), "id", None) = "gen-1"
    /\ pc = "error"

\* C16: the response carries the per-scene prompts of the Prompt Refinement
\* output whose final_prompt it reports.
C16_ResponseCarriesIndividualPrompts ==
    response # NoResponse =>
        /\ response.final_prompt = final_prompt_output.final_prompt
        /\ response.individual_prompts = final_prompt_output.individual_prompts

\* C17: a request without a product description is handed to the pipeline
\* as one with a description is: if it fails, a call of the pipeline (an
\* agent, the submit, a poll) has failed.
C17_DescriptionOptional ==
    pc = "error" => error.stage \in Stages \cup {"poll"}

\* C18: for a request with is_model false and video_type "ecommerce" the
\* prompt of the submit POST starts with the refined prompt, holds the
\* phrase "no people, no human, product only" and the description of the
\* solid background resolved for that prompt, kept "from first frame to last
\* frame", and holds no model consistency lock; and the response of such a
\* request has a non-empty video_url and 1 to 3 feedback_iterations.
PromptContains(prompt, sub) == \E n \in 1..Len(prompt) : Contains(prompt[n], sub)

ProductOnlyRequest == ~request.is_model /\ request.video_type = "ecommerce"

C18_ProductOnlyPath ==
    ProductOnlyRequest =>
        /\ submitted # NoOutput =>
              /\ submitted.prompt[1] = final_prompt_output.final_prompt
              /\ PromptContains(submitted.prompt, "no people, no human, product only")
              /\ PromptContains(submitted.prompt,
                    ResolveBackground(final_prompt_output.final_prompt).description)
              /\ PromptContains(submitted.prompt, "from first frame to last frame")
              /\ ~PromptContains(submitted.prompt, "MODEL CONSISTENCY")
        /\ response # NoResponse =>
              /\ response.video_url \notin {"", None}
              /\ response.feedback_iterations \in 1..3

\* a silver ring on its slate background, approved at the second iteration
C18_Witness ==
    /\ ProductOnlyRequest
    /\ pc = "done"
    /\ response.feedback_iterations = 2
    /\ response.video_url = "https://cdn/a.mp4"
    /\ PromptContains(submitted.prompt, "premium textured deep slate gray stone surface")

\* C19: if every external call returns or fails, a request ends, and stays
\* ended, in one of: a response (and no error), an error (and no response),
\* the poll's TimeoutError being one of the errors; it is never left for
\* ever in the refinement loop or in the polling.
Ended == pc \in {"done", "error"}

C19_RequestTerminates ==
    /\ <>[]Ended
    /\ [](pc = "done" => response # NoResponse /\ error = NoError)
    /\ [](pc = "error" => error.raised /\ response = NoResponse)
    /\ [](pc \in {"refine", "qa", "continuity"} => i \in 0..2)
    /\ [](pc = "poll" => poll_i \in 0..299)
    /\ [][~Ended]_vars

\* three rejections and 300 answers in progress: the longest request
C19_Witness ==
    /\ Ended
    /\ iterations = 3
    /\ ~approved_exit
    /\ error.raised /\ error.type = "TimeoutError"

\* C20: the stages of a request run in one order.  Each of Image Analysis,
\* Concept and Visual Direction is called once, after the one before it has
\* returned, and all three before the first Prompt Refinement call; inside
\* the loop only Prompt Refinement, QA and Continuity are called; the submit
\* follows the loop, storage follows the poll's result and the response
\* follows storage.  The concept and the visual plan never change once set,
\* and every Prompt Refinement call is given them.
C20_FixedStageOrder ==
    /\ [](calls.image_analysis <= 1 /\ calls.concept <= 1 /\ calls.visual_director <= 1)
    /\ [](calls.concept > 0 => calls.image_analysis = 1 /\ visual_context # None)
    /\ [](calls.visual_director > 0 => calls.concept = 1 /\ concept # NoOutput)
    /\ [](calls.prompt_refinement > 0 =>
            /\ calls.image_analysis = 1 /\ calls.concept = 1
            /\ calls.visual_director = 1 /\ visual_plan # NoOutput)
    /\ [](calls.continuity <= calls.qa /\ calls.qa <= calls.prompt_refinement)
    /\ [](calls.submit > 0 =>
            calls.prompt_refinement \in 1..3 /\ calls.qa = calls.prompt_refinement)
    /\ [](generation_result # NoOutput => calls.submit = 1)
    /\ [](save_outcome # None => generation_result # NoOutput)
    /\ [](response # NoResponse => save_outcome # None)
    /\ [](sent # NoOutput /\ sent.agent = "prompt_refinement" =>
            sent.args.concept = concept /\ sent.args.visual_plan = visual_plan)
    /\ [][concept # NoOutput => concept' = concept]_vars
    /\ [][visual_plan # NoOutput => visual_plan' = visual_plan]_vars
    /\ [][calls.prompt_refinement > 0 =>
            /\ calls'.image_analysis = calls.image_analysis
            /\ calls'.concept = calls.concept
            /\ calls'.visual_director = calls.visual_director]_vars

\* a request that went through every stage, the loop three times
C20_Witness ==
    /\ pc = "done"
    /\ calls.image_analysis = 1 /\ calls.concept = 1 /\ calls.visual_director = 1
    /\ calls.prompt_refinement = 3 /\ calls.qa = 3 /\ calls.continuity = 2
    /\ calls.submit = 1 /\ calls.download = 1

\* C21: when generation starts, the warning has been logged exactly when the
\* loop was not left through the approval of both gates.
C21_WarningIffNotApproved ==
    submitted # NoOutput => (warned <=> ~approved_exit)

\* C22: a failure of the generation client (the submit or a poll raising,
\* the timeout included) ends the request with that error: the failing call
\* is the last external call, the one POST is not repeated, the loop is not
\* entered again, nothing is stored and no response is returned; and no
\* request makes more than one POST.
GenerationFailed == pc = "error" /\ error.stage \in {"submit", "poll"}

C22_GenerationFailureIsFatal ==
    /\ [](calls.submit <= 1)
    /\ [](GenerationFailed =>
            /\ error.raised
            /\ sent.agent = error.stage /\ sent.raised
            /\ calls.submit = 1
            /\ calls.prompt_refinement = iterations
            /\ generation_result = NoOutput
            /\ calls.download = 0 /\ save_outcome = None /\ saved = {}
            /\ response = NoResponse)
    /\ [][~GenerationFailed]_vars
    /\ [][(pc \in {"generate", "poll"}) => (pc' \in {"poll", "persist", "error"})]_vars

\* the job of an exhausted loop completes without a URL
C22_Witness ==
    /\ GenerationFailed
    /\ error.stage = "poll"
    /\ error.msg = "Job completed but no URL returned"
    /\ iterations = 3 /\ ~approved_exit

\* C23: a poll answer whose status is not 200 does not end the polling by
\* itself.  If the polling has ended on such an answer, the answer was the
\* 300th and the end is the TimeoutError, as for a 200 answer without a
\* terminal status; and every GET after which the polling goes on, whatever
\* its answer, raises nothing and uses up one attempt.
EndedOnNotOk ==
    /\ final_poll # NoOutput
    /\ final_poll.resp.transport = "ok"
    /\ final_poll.resp.status_code # 200

EndedOnOkInProgress ==
    /\ final_poll # NoOutput
    /\ final_poll.resp.transport = "ok"
    /\ final_poll.resp.status_code = 200
    /\ Get(Inner(final_poll.resp.data), "status", None)
          \notin {"completed", "success", "failed", "canceled"}

C23_NotOkIsTransient ==
    /\ [](EndedOnNotOk \/ EndedOnOkInProgress =>
            /\ final_poll.last_attempt
            /\ pc = "error" /\ error.stage = "poll" /\ error.type = "TimeoutError")
    /\ [][(pc = "poll" /\ pc' = "poll") =>
            /\ poll_i' = poll_i + 1
            /\ sent'.agent = "poll" /\ ~sent'.raised
            /\ error' = NoError /\ final_poll' = NoOutput]_vars

\* the 300th answer is a 503
C23_Witness ==
    /\ EndedOnNotOk
    /\ final_poll.resp.status_code = 503
    /\ final_poll.last_attempt
    /\ error.type = "TimeoutError"

\* C24: every call of an agent sends one request to the language-model
\* service, whether it returns or fails: the requests sent are as many as
\* the agent calls made, no step sends more than one, and after a failed
\* call nothing more is sent.
AgentCallsMade ==
    calls.image_analysis + calls.concept + calls.visual_director
        + calls.prompt_refinement + calls.qa + calls.continuity

AgentAnswered ==
    sent # NoOutput /\ sent.agent \in AgentStages /\ sent.answer.transport = "ok"

C25_RejectedContentFails ==
    (AgentAnswered
       /\ (Truthy(sent.answer.refusal) \/ sent.answer.finish_reason = "content_filter"))
    => /\ sent.raised
       /\ pc = "error"
       /\ error.type = "ValueError"
       /\ error.msg \in {"OpenAI Refusal: " \o Fmt(sent.answer.refusal),
                          "OpenAI response was filtered due to content policy."}

\* C26, as stated: an agent call whose answer has no content, or an empty
\* one, fails with an error whose message holds the answer's finish reason
\* and, when there is one, its refusal text.
EmptyAnswer == AgentAnswered /\ sent.answer.content.kind \in {"none", "empty"}

C26_EmptyCarriesReasonAndRefusal ==
    EmptyAnswer =>
        /\ sent.raised /\ pc = "error"
        /\ Contains(error.msg, Fmt(sent.answer.finish_reason))
        /\ Truthy(sent.answer.refusal) => Contains(error.msg, sent.answer.refusal)

\* C26, amended: an agent call whose answer has no content, or an empty one,
\* always fails with a ValueError: the refusal error with the refusal text
\* when the answer has one; else the content-policy error when the finish
\* reason is content_filter; else the empty-response error, whose message
\* holds the finish reason.
C26_EmptyContentFails ==
    EmptyAnswer =>
        /\ sent.raised /\ pc = "error"
        /\ error.stage = sent.agent /\ error.type = "ValueError"
        /\ error.msg =
              IF sent.answer.refusal \notin {None, ""}
              THEN "OpenAI Refusal: " \o sent.answer.refusal
              ELSE IF sent.answer.finish_reason = "content_filter"
              THEN "OpenAI response was filtered due to content policy."
              ELSE "Empty response from OpenAI (Finish Reason: "
                       \o sent.answer.finish_reason \o ")"

\* the Quality Auditor's answer is cut at the token limit before any content
C26_Witness ==
    /\ EmptyAnswer
    /\ sent.agent = "qa"
    /\ sent.answer.content = NoContent
    /\ sent.answer.refusal = None
    /\ error.msg = "Empty response from OpenAI (Finish Reason: length)"

\* C27: an agent call returns only an object that was parsed from the
\* answer's content and that its schema admits, and that object is what the
\* orchestrator holds; content that is no JSON, or a JSON object the schema
\* rejects, makes the call raise and the request end, and nothing the
\* orchestrator holds was ever rejected by a schema.
StageHolds(stage, v) ==
    CASE stage = "image_analysis" -> visual_context = v.visual_context_summary
      [] stage = "concept" -> concept = v
      [] stage = "visual_director" -> visual_plan = v
      [] stage = "prompt_refinement" -> final_prompt_output = v
      [] stage = "qa" -> last_qa_output = v
      [] stage = "continuity" -> last_continuity_output = v

Malformed(content) ==
    content.kind = "text" \/ (content.kind = "json" /\ ~content.valid)

C27_OnlyValidatedResults ==
    /\ AgentAnswered =>
          /\ ~sent.raised =>
                /\ sent.answer.content.kind = "json"
                /\ sent.answer.content.valid
                /\ StageHolds(sent.agent, sent.answer.content.value)
          /\ Malformed(sent.answer.content) =>
                /\ sent.raised
                /\ pc = "error" /\ error.stage = sent.agent
                /\ error.type \in {"JSONDecodeError", "ValidationError"}
    /\ visual_context \in {None} \cup {v.visual_context_summary : v \in ImageAnalysisOutputs}
    /\ concept \in {NoOutput} \cup ConceptOutputs
    /\ visual_plan \in {NoOutput} \cup VisualDirectorOutputs
    /\ final_prompt_output \in
          {NoOutput} \cup UNION {PromptRefinementOutputs(k) : k \in 1..3}
    /\ last_qa_output \in {NoOutput} \cup QAAgentOutputs
    /\ last_continuity_output \in {NoOutput} \cup ContinuityControlOutputs

\* the Continuity Auditor answers an object whose members are null
C27_Witness ==
    /\ AgentAnswered
    /\ sent.agent = "continuity"
    /\ sent.answer.content.kind = "json" /\ ~sent.answer.content.valid
    /\ pc = "error" /\ error.type = "ValidationError"
    /\ last_continuity_output = NoOutput

\* C28: the model of the request an agent call sends.  Without an image it
\* is the model the agent was constructed with; with an image it is that
\* model when its name, lower-cased, holds one of gpt-4, 4o, 4.1, vision,
\* and gpt-4o otherwise.
NamesVisionCapable ==
    {"gpt-4.1-nano", "gpt-4o", "gpt-4", "GPT-4-Turbo", "chatgpt-4o-latest",
     "GPT-4O-MINI", "my-Vision-model"}

C28_ModelSelection ==
    pc = "requested" =>
        current_model =
            IF execute_image \in {None, ""} THEN self_model
            ELSE IF self_model \in NamesVisionCapable THEN self_model
            ELSE "gpt-4o"

\* an upper-case name that holds a keyword once lower-cased, with an image
C28_Witness ==
    /\ pc = "requested"
    /\ self_model = "GPT-4O-MINI"
    /\ execute_image = "data:image/png;base64,AA"
    /\ current_model = "GPT-4O-MINI"

\* C29: every Prompt Refinement call of a request that carries a reference
\* video path is given that path.
C29_ReferencePathReachesRefinement ==
    (sent # NoOutput /\ sent.agent = "prompt_refinement"
       /\ request.reference_video_path # None)
    => sent.args.reference_video = request.reference_video_path

\* C30: the prompt of the submit POST holds the model consistency lock only
\* if the request's model_consistency flag is true.
C30_ModelLockOnlyIfConsistency ==
    (submitted # NoOutput
       /\ PromptContains(submitted.prompt, "MODEL CONSISTENCY ABSOLUTE LOCK"))
    => request.model_consistency

\* C31: a generation makes one submit POST and no second one; its JSON body
\* has exactly the seven fields prompt, image, duration, resolution,
\* movement_amplitude, generate_audio and enhance_prompt, with the request's
\* image and duration, the request's is_music as generate_audio and
\* enhance_prompt false.
C31_OneSubmitPost ==
    /\ calls["submit"] <= 1
    /\ (pc \in {"poll", "persist", "done"}) => (calls["submit"] = 1)
    /\ (submitted # NoOutput) <=> (calls["submit"] = 1)
    /\ (submitted # NoOutput) =>
         /\ DOMAIN submitted = {"prompt", "image", "duration", "resolution",
                                "movement_amplitude", "generate_audio",
                                "enhance_prompt"}
         /\ submitted.image = request.base64_image
         /\ submitted.duration = request.duration
         /\ submitted.generate_audio = request.is_music
         /\ submitted.enhance_prompt = FALSE

\* A response has been returned for a 12 second request without music.
C31_Witness ==
    /\ pc = "done"
    /\ response # NoResponse
    /\ calls["submit"] = 1
    /\ request.duration = 12
    /\ ~request.is_music
    /\ ~submitted.generate_audio

C33_NoStorageCollision ==
    /\ \A f \in saved : f[1] = GenerationDir(generation_id)
    /\ other # NoOutput =>
         /\ \A f \in other.saved : f[1] = GenerationDir(other.generation_id)
         /\ saved \cap other.saved = {}

\* Both requests have saved all their artifacts and returned.
C33_Witness ==
    /\ other # NoOutput
    /\ pc = "done" /\ other.pc = "done"
    /\ save_outcome = "ok" /\ other.save_outcome = "ok"
    /\ \E f \in saved : f[2] = "video.mp4"
    /\ \E f \in other.saved : f[2] = "video.mp4"

\* C34: a continuity output written to continuity_output.json is the
\* Continuity Auditor's verdict on the prompt written to final_prompt.json:
\* it was returned in the iteration that produced that prompt, the one whose
\* QA output is written too.
C34_PersistedContinuityIsCurrent ==
    ((\E f \in saved : f[2] = "continuity_output.json")
        /\ last_continuity_output # NoOutput)
    => (continuity_iter = iterations /\ qa_iter = iterations)

\* C35: a response whose feedback_iterations is below 3 comes from a request
\* whose last iteration was approved by the Quality Auditor and by the
\* Continuity Auditor; the loop is left before its third iteration only by
\* that double approval.
C35_EarlyExitOnlyByDoubleApproval ==
    /\ (AfterLoop /\ iterations < max_iterations) =>
          (approved_exit /\ BothApproved)
    /\ (response # NoResponse /\ response.feedback_iterations < max_iterations) =>
          /\ response.feedback_iterations = iterations
          /\ approved_exit
          /\ qa_iter = response.feedback_iterations
          /\ last_qa_output.approved = TRUE
          /\ continuity_iter = response.feedback_iterations
          /\ last_continuity_output.approved = TRUE

\* A response reports two iterations: the first was rejected, the second
\* approved by both auditors.
C35_Witness ==
    /\ pc = "done"
    /\ response # NoResponse
    /\ response.feedback_iterations = 2
    /\ calls.qa = 2
    /\ last_continuity_output.approved

\* The style phrase of the submitted prompt is the UGC one.
UGCBranchUsed == submitted.prompt[4] = ", natural daylight, warm golden hour tones"

\* C36: for every video_type the movement_amplitude of the submit POST
\* agrees with the branch its prompt was built on: "small" exactly when the
\* UGC phrases were used, "auto" exactly when the non-UGC ones were.
C36_AmplitudeFollowsPromptBranch ==
    submitted # NoOutput =>
        /\ (submitted.movement_amplitude = "small") <=> UGCBranchUsed
        /\ (submitted.movement_amplitude = "auto") <=> ~UGCBranchUsed

\* C37: the prompt of the submit POST begins with the final_prompt of the
\* latest Prompt Refinement output, unchanged, the client's phrases coming
\* after it; the final_prompt of the response is that same text.
C37_RefinedPromptUnmodified ==
    /\ submitted # NoOutput =>
         /\ submitted.prompt[1] = final_prompt_output.final_prompt
         /\ submitted.prompt[1] = PromptText(calls.prompt_refinement)
         /\ sent.agent = "submit" => Len(submitted.prompt) > 1
    /\ response # NoResponse =>
         /\ response.final_prompt = submitted.prompt[1]
         /\ response.final_prompt = PromptText(calls.prompt_refinement)

\* A response after three iterations: the prompt of the third is the one
\* submitted and reported.
C37_Witness ==
    /\ pc = "done"
    /\ calls.prompt_refinement = 3
    /\ response.final_prompt = PromptText(3)
    /\ submitted.prompt[1] = PromptText(3)

\* The status of the answer that ended the polling
UpstreamStatus == Get(Inner(final_poll.resp.data), "status", None)

\* C38: a response has status "success", whether the job ended as
\* "completed" or as "success", a video_url that is not empty and the
\* generation id the submit answer carried; there is a response only for a
\* job whose polling ended on one of those two statuses.
C38_ResponseOnlyOnSuccess ==
    response # NoResponse =>
        /\ response.status = "success"
        /\ Truthy(response.video_url)
        /\ Truthy(response.generation_id)
        /\ response.generation_id = generation_id
        /\ calls.submit = 1
        /\ final_poll # NoOutput
        /\ final_poll.resp.transport = "ok"
        /\ final_poll.resp.status_code = 200
        /\ UpstreamStatus \in {"completed", "success"}

\* A response for a job the service reported as "completed"
C38_Witness ==
    /\ pc = "done"
    /\ response # NoResponse
    /\ response.status = "success"
    /\ UpstreamStatus = "completed"

\* C39: every poll attempt whose number, counted from 1, is a multiple of
\* 15 leaves a progress entry whatever the service answered, and the entry
\* does not change what the attempt leads to: polling goes on after an answer
\* that is not terminal, and ends as the answer's status tells otherwise.
C39_ProgressEveryFifteenth ==
    [][(pc = "poll" /\ ProgressDue(poll_i)) =>
          /\ progress'.attempt = poll_i + 1
          /\ progress'.answered => progress'.logged
          /\ progress'.logged =>
                CASE progress'.status \in {"completed", "success"} ->
                       pc' \in {"persist", "error"}
                  [] progress'.status \in {"failed", "canceled"} -> pc' = "error"
                  [] OTHER -> IF PollExhausted(poll_i) THEN pc' = "error"
                              ELSE pc' = "poll" /\ poll_i' = poll_i + 1]_vars

====
